---------------------------- MODULE Spec2Model ----------------------------
(***************************************************************************)
(* Model of the chat relay of axiom_server.py: the handler                 *)
(* chat_with_axiom (POST /api/chat), one step per statement, run by one    *)
(* or several requests in flight, against a backend (Ollama) that may      *)
(* refuse the connection, time out, answer with an error status or answer  *)
(* 200 with any body.                                                      *)
(*                                                                         *)
(* Python values are tagged records [t, v]: None, str, list, dict (a dict  *)
(* is a function from its keys to values), so that a None, a str and a     *)
(* dict are different values and dict.get on a non-dict is an error.       *)
(***************************************************************************)
EXTENDS Integers, Sequences, FiniteSets, TLC

VARIABLES pc, request, conversation_history, current_model, user_message,
          sent, response, response_json, assistant_message, exc, result

vars == <<pc, request, conversation_history, current_model, user_message,
          sent, response, response_json, assistant_message, exc, result>>

----------------------------------------------------------------------------
(* Bounds *)

\* number of requests that can be in flight together (ConcSpec)
NumProcs == 2
\* longest history a request carries in
MaxHist == 2

----------------------------------------------------------------------------
(* Configuration *)

OLLAMA_API_URL == "http://localhost:11434/api/chat"
TEXT_MODEL_NAME == "llama3:8b"
VISION_MODEL_NAME == "llava"
\* timeout=180 of requests.post
TIMEOUT == 180
\* the fixed text of the except branch's message (accents dropped)
APOLOGY == "Desole, une erreur est survenue en contactant le moteur Axiom. Details: "

----------------------------------------------------------------------------
(* Python values *)

None == [t |-> "none", v |-> {}]
Str(s) == [t |-> "str", v |-> s]
List(l) == [t |-> "list", v |-> l]
Dict(d) == [t |-> "dict", v |-> d]
EmptyMap == [k \in {} |-> None]

\* only a dict has .get; on None, a str or a list it is an AttributeError
HasGet(obj) == obj.t = "dict"

\* obj.get(key, default), for a dict obj
PyGet(obj, key, default) == IF key \in DOMAIN obj.v THEN obj.v[key] ELSE default

\* "if request.image" with any non-None image
IsNotNone(val) == val # None

\* "if request.image": None and the empty string are falsy
Truthy(val) == val.t = "str" /\ val.v # ""

\* list.insert(0, e)
ListPrepend(l, e) == <<e>> \o l

\* list.append(e)
ListAppend(l, e) == Append(l, e)

----------------------------------------------------------------------------
(* The statements of chat_with_axiom *)

\* user_message = {"role": "user", "content": request.text}
NewUserMessage(text) == Dict([role |-> Str("user"), content |-> Str(text)])

\* user_message["images"] = request.image
AttachImageBare(msg, image) == Dict(msg.v @@ ("images" :> image))

\* user_message["images"] = [request.image]
AttachImage(msg, image) == Dict(msg.v @@ ("images" :> List(<<image>>)))

\* a module-level history list that every request extends
SharedHistory(req) == conversation_history[1] \o req.history

\* conversation_history = request.history
RequestHistory(req) == req.history

\* payload = {"model": ..., "messages": ..., "stream": False}
Payload(model, messages) ==
    [model |-> model, messages |-> messages, stream |-> FALSE]

\* requests.post(OLLAMA_API_URL, json=payload, timeout=180)
PostCall(payload) ==
    [url |-> OLLAMA_API_URL, json |-> payload, timeout |-> TIMEOUT]

\* the return of the try branch
SuccessResult(message, hist) ==
    [status |-> 200,
     body |-> [response |-> PyGet(message, "content", Str("")), history |-> hist]]

\* an except branch that drops the error detail
ErrorResultNoDetail(e, hist) ==
    [status |-> 200, body |-> [response |-> Str(APOLOGY), history |-> hist]]

\* an except branch that records the apology as an assistant turn
ErrorResultWithTurn(e, hist) ==
    [status |-> 200,
     body |-> [response |-> Str(APOLOGY \o e),
               history |-> Append(hist, Dict([role |-> Str("assistant"),
                                              content |-> Str(APOLOGY \o e)]))]]

\* the return of the except branch
ErrorResult(e, hist) ==
    [status |-> 200, body |-> [response |-> Str(APOLOGY \o e), history |-> hist]]

\* an exception that is not a RequestException leaves the handler: the
\* framework answers 500 Internal Server Error
ServerError == [status |-> 500, body |-> [response |-> None, history |-> <<>>]]

NoResult == [status |-> 0, body |-> [response |-> None, history |-> <<>>]]

\* an except branch that goes back to the call
ExceptRetry == "l74"

\* where the except branch leaves the handler: it returns
ExceptNext == "done"

----------------------------------------------------------------------------
(* Requests and backend outcomes *)

Procs == 1..NumProcs
Single == {1}

AssistantTurn(text) == Dict([role |-> Str("assistant"), content |-> Str(text)])

\* turns a caller can send in history
PriorTurns == {AttachImage(NewUserMessage("look"), Str("BBBB")), AssistantTurn("ok")}

SeqsUpTo(S, n) == UNION {[1..k -> S] : k \in 0..n}

Texts == {"hi", "describe"}
Images == {None, Str(""), Str("AAAA")}

Requests == [text : Texts, image : Images, history : SeqsUpTo(PriorTurns, MaxHist)]

NoRequest == [text |-> "", image |-> None, history |-> <<>>]

\* requests.post raises (a RequestException) with str(e) = detail
Raises(detail) ==
    [kind |-> "exception", status |-> 0, valid |-> FALSE, json |-> None, detail |-> detail]

\* requests.post returns a Response; valid: the body is JSON, json: its value
Answers(status, valid, json, detail) ==
    [kind |-> "response", status |-> status, valid |-> valid, json |-> json, detail |-> detail]

NoResponse == [kind |-> "none", status |-> 0, valid |-> FALSE, json |-> None, detail |-> ""]

Bodies == {List(<<>>),
           Dict(EmptyMap),
           Dict([message |-> None]),
           Dict([message |-> Str("oops")]),
           Dict([message |-> Dict(EmptyMap)]),
           Dict([message |-> Dict([role |-> Str("assistant")])]),
           Dict([message |-> AssistantTurn("hello")])}

Outcomes == {Raises("ConnectionError"), Raises("ReadTimeout"),
             Answers(500, TRUE, Dict(EmptyMap), "500 Server Error"),
             Answers(200, FALSE, None, "Expecting value")}
            \cup {Answers(200, TRUE, b, "") : b \in Bodies}

\* the inputs of the runs with several requests in flight
ConcRequests == {r \in Requests : /\ Len(r.history) <= 1
                                  /\ r.text = "hi"
                                  /\ r.image # Str("")
                                  /\ (r.history = <<>> <=> r.image = None)}

ConcOutcomes == {Raises("ConnectionError"),
                 Answers(200, TRUE, Dict([message |-> AssistantTurn("hello")]), ""),
                 Answers(200, TRUE, Dict([message |-> None]), "")}

----------------------------------------------------------------------------
(* State *)

Init ==
    /\ pc = [p \in Procs |-> "idle"]
    /\ request = [p \in Procs |-> NoRequest]
    /\ conversation_history = [p \in Procs |-> <<>>]
    /\ current_model = [p \in Procs |-> ""]
    /\ user_message = [p \in Procs |-> None]
    /\ sent = [p \in Procs |-> <<>>]
    /\ response = [p \in Procs |-> NoResponse]
    /\ response_json = [p \in Procs |-> None]
    /\ assistant_message = [p \in Procs |-> None]
    /\ exc = [p \in Procs |-> ""]
    /\ result = [p \in Procs |-> NoResult]

\* lines 54-62: a request arrives; history, model and user message are set up
Receive(p, req) ==
    /\ pc[p] = "idle"
    /\ request' = [request EXCEPT ![p] = req]
    /\ conversation_history' = [conversation_history EXCEPT ![p] = RequestHistory(req)]
    /\ current_model' = [current_model EXCEPT ![p] = TEXT_MODEL_NAME]
    /\ user_message' = [user_message EXCEPT ![p] = NewUserMessage(req.text)]
    /\ pc' = [pc EXCEPT ![p] = "l65"]
    /\ UNCHANGED <<sent, response, response_json, assistant_message, exc, result>>

\* lines 65-69: an image switches to the vision model and is attached
SelectModel(p) ==
    /\ pc[p] = "l65"
    /\ IF Truthy(request[p].image)
       THEN /\ current_model' = [current_model EXCEPT ![p] = VISION_MODEL_NAME]
            /\ user_message' = [user_message EXCEPT
                                   ![p] = AttachImage(user_message[p], request[p].image)]
       ELSE UNCHANGED <<current_model, user_message>>
    /\ pc' = [pc EXCEPT ![p] = "l71"]
    /\ UNCHANGED <<request, conversation_history, sent, response, response_json,
                   assistant_message, exc, result>>

\* line 71
AppendUser(p) ==
    /\ pc[p] = "l71"
    /\ conversation_history' = [conversation_history EXCEPT
                                   ![p] = ListAppend(conversation_history[p], user_message[p])]
    /\ pc' = [pc EXCEPT ![p] = "l74"]
    /\ UNCHANGED <<request, current_model, user_message, sent, response, response_json,
                   assistant_message, exc, result>>

\* lines 74-83: the payload is built and the call is issued
Send(p) ==
    /\ pc[p] = "l74"
    /\ sent' = [sent EXCEPT
                   ![p] = Append(sent[p],
                                 PostCall(Payload(current_model[p], conversation_history[p])))]
    /\ pc' = [pc EXCEPT ![p] = "waiting"]
    /\ UNCHANGED <<request, conversation_history, current_model, user_message, response,
                   response_json, assistant_message, exc, result>>

\* line 83: requests.post returns a Response or raises (connection refused,
\* or no answer within the timeout)
BackendAnswers(p, o) ==
    /\ pc[p] = "waiting"
    /\ response' = [response EXCEPT ![p] = o]
    /\ \/ /\ o.kind = "exception"
          /\ exc' = [exc EXCEPT ![p] = o.detail]
          /\ pc' = [pc EXCEPT ![p] = "except"]
       \/ /\ o.kind = "response"
          /\ pc' = [pc EXCEPT ![p] = "l84"]
          /\ UNCHANGED exc
    /\ UNCHANGED <<request, conversation_history, current_model, user_message, sent,
                   response_json, assistant_message, result>>

\* line 84: raise_for_status raises HTTPError on a 4xx or 5xx status
RaiseForStatus(p) ==
    /\ pc[p] = "l84"
    /\ IF response[p].status >= 400
       THEN /\ exc' = [exc EXCEPT ![p] = response[p].detail]
            /\ pc' = [pc EXCEPT ![p] = "except"]
       ELSE /\ pc' = [pc EXCEPT ![p] = "l86"]
            /\ UNCHANGED exc
    /\ UNCHANGED <<request, conversation_history, current_model, user_message, sent,
                   response, response_json, assistant_message, result>>

\* line 86: response.json(); on a body that is not JSON it raises
\* requests.exceptions.JSONDecodeError, which is a RequestException
\* (requests 2.27 and later)
ParseJson(p) ==
    /\ pc[p] = "l86"
    /\ IF response[p].valid
       THEN /\ response_json' = [response_json EXCEPT ![p] = response[p].json]
            /\ pc' = [pc EXCEPT ![p] = "l87"]
            /\ UNCHANGED exc
       ELSE /\ exc' = [exc EXCEPT ![p] = response[p].detail]
            /\ pc' = [pc EXCEPT ![p] = "except"]
            /\ UNCHANGED response_json
    /\ UNCHANGED <<request, conversation_history, current_model, user_message, sent,
                   response, assistant_message, result>>

\* line 87: response_json.get("message", {}); AttributeError, which the
\* except clause does not catch, when the body is not a JSON object
GetMessage(p) ==
    /\ pc[p] = "l87"
    /\ IF HasGet(response_json[p])
       THEN /\ assistant_message' = [assistant_message EXCEPT
                                        ![p] = PyGet(response_json[p], "message", Dict(EmptyMap))]
            /\ pc' = [pc EXCEPT ![p] = "l90"]
            /\ UNCHANGED result
       ELSE /\ result' = [result EXCEPT ![p] = ServerError]
            /\ pc' = [pc EXCEPT ![p] = "done"]
            /\ UNCHANGED assistant_message
    /\ UNCHANGED <<request, conversation_history, current_model, user_message, sent,
                   response, response_json, exc>>

\* line 90
AppendAssistant(p) ==
    /\ pc[p] = "l90"
    /\ conversation_history' = [conversation_history EXCEPT
                                   ![p] = ListAppend(conversation_history[p], assistant_message[p])]
    /\ pc' = [pc EXCEPT ![p] = "l92"]
    /\ UNCHANGED <<request, current_model, user_message, sent, response, response_json,
                   assistant_message, exc, result>>

\* line 92: assistant_message.get("content", ""); AttributeError when the
\* message is not a mapping (null, a string)
ReturnSuccess(p) ==
    /\ pc[p] = "l92"
    /\ result' = [result EXCEPT
                     ![p] = IF HasGet(assistant_message[p])
                            THEN SuccessResult(assistant_message[p], conversation_history[p])
                            ELSE ServerError]
    /\ pc' = [pc EXCEPT ![p] = "done"]
    /\ UNCHANGED <<request, conversation_history, current_model, user_message, sent,
                   response, response_json, assistant_message, exc>>

\* lines 94-96
Except(p) ==
    /\ pc[p] = "except"
    /\ result' = [result EXCEPT ![p] = ErrorResult(exc[p], conversation_history[p])]
    /\ pc' = [pc EXCEPT ![p] = ExceptNext]
    /\ UNCHANGED <<request, conversation_history, current_model, user_message, sent,
                   response, response_json, assistant_message, exc>>

\* the framework sends the result; the handler's locals are gone
Respond(p) ==
    /\ pc[p] = "done"
    /\ pc' = [pc EXCEPT ![p] = "idle"]
    /\ request' = [request EXCEPT ![p] = NoRequest]
    /\ conversation_history' = [conversation_history EXCEPT ![p] = <<>>]
    /\ current_model' = [current_model EXCEPT ![p] = ""]
    /\ user_message' = [user_message EXCEPT ![p] = None]
    /\ sent' = [sent EXCEPT ![p] = <<>>]
    /\ response' = [response EXCEPT ![p] = NoResponse]
    /\ response_json' = [response_json EXCEPT ![p] = None]
    /\ assistant_message' = [assistant_message EXCEPT ![p] = None]
    /\ exc' = [exc EXCEPT ![p] = ""]
    /\ result' = [result EXCEPT ![p] = NoResult]

\* the steps of a request once it has arrived
Progress(p, O) ==
    \/ SelectModel(p)
    \/ AppendUser(p)
    \/ Send(p)
    \/ \E o \in O : BackendAnswers(p, o)
    \/ RaiseForStatus(p)
    \/ ParseJson(p)
    \/ GetMessage(p)
    \/ AppendAssistant(p)
    \/ ReturnSuccess(p)
    \/ Except(p)
    \/ Respond(p)

\* one request at a time, every request and every backend outcome
Next ==
    \E p \in Single :
        \/ \E req \in Requests : Receive(p, req)
        \/ Progress(p, Outcomes)

Spec == Init /\ [][Next]_vars

\* a request that has arrived runs to its end: the handler's statements are
\* executed, and the backend call returns or raises within its timeout
FairSpec == Spec /\ \A p \in Single : WF_vars(Progress(p, Outcomes))

\* several requests in flight, their steps interleaved
ConcNext ==
    \E p \in Procs :
        \/ \E req \in ConcRequests : Receive(p, req)
        \/ Progress(p, ConcOutcomes)

ConcSpec == Init /\ [][ConcNext]_vars

----------------------------------------------------------------------------
(* Properties *)

IsPrefix(s, t) == Len(s) <= Len(t) /\ SubSeq(t, 1, Len(s)) = s

StartsWith(str, prefix) ==
    Len(str) >= Len(prefix) /\ SubSeq(str, 1, Len(prefix)) = prefix

EndsWith(str, suffix) ==
    Len(str) >= Len(suffix) /\ SubSeq(str, Len(str) - Len(suffix) + 1, Len(str)) = suffix

\* the handler returned {response, history}
Returned(p) == pc[p] = "done" /\ result[p].status = 200

\* the backend call failed the way the except branch is written for:
\* network error, timeout, error status
CallFailed(p) ==
    \/ response[p].kind = "exception"
    \/ response[p].kind = "response" /\ response[p].status >= 400

\* the backend answered with a success status
CallAnswered(p) == response[p].kind = "response" /\ response[p].status < 400

\* the new turn of a request: images [image] when the image is not None
TurnIfPresent(req) ==
    IF req.image # None
    THEN Dict([role |-> Str("user"), content |-> Str(req.text),
               images |-> List(<<req.image>>)])
    ELSE Dict([role |-> Str("user"), content |-> Str(req.text)])

\* the new turn of a request: images [image] when the image is a non-empty string
TurnIfNonEmpty(req) ==
    IF req.image # None /\ req.image # Str("")
    THEN Dict([role |-> Str("user"), content |-> Str(req.text),
               images |-> List(<<req.image>>)])
    ELSE Dict([role |-> Str("user"), content |-> Str(req.text)])

\* C1: every request, whatever the backend does or sends, ends in a normal
\* 200 answer; no error leaves the handler.
C1_Always200 ==
    \A p \in Procs : pc[p] = "done" => result[p].status = 200

\* C2: a returned history has exactly 2 more entries than the input history
\* when the backend call succeeded and exactly 1 more when it failed (a
\* RequestException was caught); no other length is returned.
C2_ReturnedLength ==
    \A p \in Procs :
        Returned(p) =>
            LET n == Len(request[p].history)
                m == Len(result[p].body.history)
            IN  /\ m \in {n + 1, n + 2}
                /\ (CallFailed(p) => m = n + 1)
                /\ (exc[p] # "" => m = n + 1)
                /\ (exc[p] = "" => m = n + 2 /\ CallAnswered(p))

C2_Witness ==
    \E p \in Procs :
        /\ Returned(p)
        /\ exc[p] = ""
        /\ Len(request[p].history) = MaxHist
        /\ Len(result[p].body.history) = MaxHist + 2

\* C3: at every step and in the returned result the input history is a
\* prefix of the working history, entry for entry: the relay only appends.
C3_PrefixPreserved ==
    \A p \in Procs :
        /\ pc[p] # "idle" => IsPrefix(request[p].history, conversation_history[p])
        /\ Returned(p) => IsPrefix(request[p].history, result[p].body.history)

C3_Witness ==
    \E p \in Procs :
        /\ Returned(p)
        /\ Len(request[p].history) >= 1
        /\ Len(result[p].body.history) = Len(request[p].history) + 2

\* C4: the model sent to the backend is the vision model exactly when the
\* request's image is present and non-empty, and the text model otherwise,
\* whatever the text and the earlier turns are.
C4_ModelChoice ==
    \A p \in Procs :
        \A i \in 1..Len(sent[p]) :
            sent[p][i].json.model =
                IF request[p].image # None /\ request[p].image # Str("")
                THEN VISION_MODEL_NAME
                ELSE TEXT_MODEL_NAME

\* an empty image after a turn that carried an image: the text model
C4_Witness ==
    \E p \in Procs :
        /\ Len(sent[p]) = 1
        /\ request[p].image = Str("")
        /\ \E i \in 1..Len(request[p].history) : "images" \in DOMAIN request[p].history[i].v
        /\ sent[p][1].json.model = TEXT_MODEL_NAME

\* C5: when the backend call fails (network error, timeout, error status)
\* the handler returns the apology followed by the error detail, with the
\* input history followed by exactly the new user turn.
C5_FailureResult ==
    \A p \in Procs :
        (pc[p] = "done" /\ CallFailed(p)) =>
            LET text == result[p].body.response
                hist == result[p].body.history
            IN  /\ result[p].status = 200
                /\ text.t = "str"
                /\ StartsWith(text.v, APOLOGY)
                /\ EndsWith(text.v, response[p].detail)
                /\ Len(text.v) = Len(APOLOGY) + Len(response[p].detail)
                /\ hist = Append(request[p].history, TurnIfNonEmpty(request[p]))
                /\ hist[Len(hist)].v["role"] = Str("user")
                /\ hist[Len(hist)].v["content"] = Str(request[p].text)

C5_Witness ==
    \E p \in Procs :
        /\ pc[p] = "done"
        /\ response[p].kind = "response"
        /\ response[p].status >= 400
        /\ request[p].history # <<>>
        /\ result[p].body.history = Append(request[p].history, TurnIfNonEmpty(request[p]))

\* the message object of a body, an empty mapping when the field is absent
MessageOf(body) ==
    IF body.t = "dict" /\ "message" \in DOMAIN body.v THEN body.v["message"] ELSE Dict(EmptyMap)

\* the content of a message, the empty string when the field is absent
ContentOf(message) ==
    IF message.t = "dict" /\ "content" \in DOMAIN message.v
    THEN message.v["content"]
    ELSE Str("")

\* C6: when the backend call succeeds, for every response body, the
\* handler appends the body's message object (an empty mapping if absent)
\* and returns its content (the empty string if absent) with the full
\* history; a missing field never makes the request fail.
C6_SuccessResult ==
    \A p \in Procs :
        (pc[p] = "done" /\ CallAnswered(p) /\ response[p].valid) =>
            LET message == MessageOf(response[p].json)
            IN  /\ result[p].status = 200
                /\ result[p].body.response = ContentOf(message)
                /\ result[p].body.history =
                       Append(Append(request[p].history, TurnIfNonEmpty(request[p])), message)

\* C7 as stated: the payload has stream = false and messages = the input
\* history followed by the new user turn, which carries images = [image]
\* if the image is present and no images field if it is not.
C7_PayloadIfPresent ==
    \A p \in Procs :
        \A i \in 1..Len(sent[p]) :
            /\ sent[p][i].json.stream = FALSE
            /\ sent[p][i].json.messages = Append(request[p].history, TurnIfPresent(request[p]))

\* C7 amended: the new turn carries images = [image] if the image is
\* present and non-empty, and no images field if it is absent or empty.
C7_PayloadIfNonEmpty ==
    \A p \in Procs :
        \A i \in 1..Len(sent[p]) :
            /\ sent[p][i].json.stream = FALSE
            /\ sent[p][i].json.messages = Append(request[p].history, TurnIfNonEmpty(request[p]))

C7_Witness ==
    \E p \in Procs :
        /\ Len(sent[p]) = 1
        /\ request[p].image = Str("AAAA")
        /\ request[p].history # <<>>
        /\ LET msgs == sent[p][1].json.messages
           IN  msgs[Len(msgs)].v["images"] = List(<<Str("AAAA")>>)

\* what a request alone sends to the backend
OwnCall(req) ==
    [url |-> OLLAMA_API_URL, timeout |-> TIMEOUT,
     json |-> [model |-> IF req.image \in {None, Str("")}
                         THEN TEXT_MODEL_NAME ELSE VISION_MODEL_NAME,
               messages |-> Append(req.history, TurnIfNonEmpty(req)),
               stream |-> FALSE]]

\* what a request alone returns on the backend outcome o
OwnBody(req, o) ==
    IF o.kind = "response" /\ o.status < 400 /\ o.valid
    THEN [response |-> ContentOf(MessageOf(o.json)),
          history |-> Append(Append(req.history, TurnIfNonEmpty(req)), MessageOf(o.json))]
    ELSE [response |-> Str(APOLOGY \o o.detail),
          history |-> Append(req.history, TurnIfNonEmpty(req))]

\* C8: with several requests in flight, what each sends to the backend
\* and what it returns depend on its own input and its own backend outcome
\* only, and a request starts from no state of an earlier one.
C8_Isolation ==
    \A p \in Procs :
        /\ \A i \in 1..Len(sent[p]) : sent[p][i] = OwnCall(request[p])
        /\ Returned(p) => result[p].body = OwnBody(request[p], response[p])
        /\ pc[p] \in {"l65", "l71"} => conversation_history[p] = request[p].history

\* two requests in flight with different inputs, one returned
C8_Witness ==
    \E p \in Procs : \E q \in Procs :
        /\ p # q
        /\ Returned(p)
        /\ pc[q] \notin {"idle", "l65", "l71", "l74"}
        /\ request[p] # request[q]
        /\ request[q].history # <<>>
        /\ Len(sent[q]) = 1

\* C9: each request issues exactly one backend call, after the user turn
\* is appended and before any assistant turn; a failed call is not retried.
C9_OneCall ==
    /\ [](\A p \in Procs :
             /\ Len(sent[p]) <= 1
             /\ pc[p] \in {"waiting", "l84", "l86", "l87", "l90", "l92", "except", "done"}
                    => Len(sent[p]) = 1
             /\ Len(conversation_history[p]) > Len(request[p].history) + 1
                    => Len(sent[p]) = 1)
    /\ [][\A p \in Procs :
             Len(sent'[p]) > Len(sent[p]) =>
                 /\ conversation_history[p] = Append(request[p].history, TurnIfNonEmpty(request[p]))
                 /\ conversation_history'[p] = conversation_history[p]]_vars

C9_Witness ==
    \E p \in Procs :
        /\ pc[p] = "done"
        /\ exc[p] # ""
        /\ Len(sent[p]) = 1

\* C10: every request eventually reaches a return of {response, history}.
C10_EventuallyReturns ==
    \A p \in Single : [](pc[p] = "l65" => <>Returned(p))

=============================================================================
